---------------------------- MODULE Spec2Model ----------------------------
(***************************************************************************)
(* A model of backend/apps/core/metrics.py: the Prometheus instruments the *)
(* module declares, record_llm_cost and init_app_info.                     *)
(*                                                                         *)
(* Python floats are IEEE-754 binary64.  A finite float is kept here as    *)
(* its exact value: a sign and a magnitude, the magnitude being the        *)
(* natural number value * 2^FracBits written in base 2^LimbBits (least     *)
(* significant limb first, no leading zero limb, zero is << >>).  Every    *)
(* arithmetic operation computes the exact result and rounds it to 53      *)
(* significant bits, ties to even, as the hardware does.                   *)
(***************************************************************************)
EXTENDS Integers, Naturals, Sequences, FiniteSets, TLC

---------------------------------------------------------------------------
(* Natural numbers of any size (TLC's integers are 32 bits wide).          *)

LimbBits == 15
Base == 2 ^ LimbBits
FracLimbs == 8
FracBits == FracLimbs * LimbBits
MantBits == 53

Max(a, b) == IF a >= b THEN a ELSE b

Limb(N, i) == IF i <= Len(N) THEN N[i] ELSE 0

RECURSIVE BNorm(_)
BNorm(N) ==
    IF N = << >> THEN << >>
    ELSE IF N[Len(N)] = 0 THEN BNorm(SubSeq(N, 1, Len(N) - 1))
    ELSE N

Zeros(k) == [i \in 1..k |-> 0]

\* the bignum of a small natural number
RECURSIVE BFromNat(_)
BFromNat(n) == IF n = 0 THEN << >> ELSE <<n % Base>> \o BFromNat(n \div Base)

\* -1, 0, 1 as A < B, A = B, A > B
RECURSIVE BCmpFrom(_, _, _)
BCmpFrom(A, B, i) ==
    IF i = 0 THEN 0
    ELSE IF A[i] > B[i] THEN 1
    ELSE IF A[i] < B[i] THEN -1
    ELSE BCmpFrom(A, B, i - 1)

BCmp(A, B) ==
    IF Len(A) > Len(B) THEN 1
    ELSE IF Len(A) < Len(B) THEN -1
    ELSE BCmpFrom(A, B, Len(A))

RECURSIVE BAddFrom(_, _, _, _)
BAddFrom(A, B, i, carry) ==
    IF i > Max(Len(A), Len(B))
    THEN (IF carry = 0 THEN << >> ELSE <<carry>>)
    ELSE LET s == Limb(A, i) + Limb(B, i) + carry
         IN  <<s % Base>> \o BAddFrom(A, B, i + 1, s \div Base)

BAdd(A, B) == BAddFrom(A, B, 1, 0)

\* A - B for A >= B
RECURSIVE BSubFrom(_, _, _, _)
BSubFrom(A, B, i, borrow) ==
    IF i > Len(A) THEN << >>
    ELSE LET s == A[i] - Limb(B, i) - borrow
         IN  IF s < 0 THEN <<s + Base>> \o BSubFrom(A, B, i + 1, 1)
             ELSE <<s>> \o BSubFrom(A, B, i + 1, 0)

BSub(A, B) == BNorm(BSubFrom(A, B, 1, 0))

\* A * k for 0 <= k < Base
RECURSIVE BMulSmallFrom(_, _, _, _)
BMulSmallFrom(A, k, i, carry) ==
    IF i > Len(A) THEN BFromNat(carry)
    ELSE LET s == A[i] * k + carry
         IN  <<s % Base>> \o BMulSmallFrom(A, k, i + 1, s \div Base)

BMulSmall(A, k) == BNorm(BMulSmallFrom(A, k, 1, 0))

RECURSIVE BMulFrom(_, _, _)
BMulFrom(A, B, i) ==
    IF i > Len(A) THEN << >>
    ELSE IF A[i] = 0 THEN BMulFrom(A, B, i + 1)
    ELSE BAdd(Zeros(i - 1) \o BMulSmall(B, A[i]), BMulFrom(A, B, i + 1))

BMul(A, B) == BMulFrom(A, B, 1)

\* A divided by d, 0 < d <= Base: [q |-> the quotient, r |-> the remainder]
RECURSIVE BDivSmallFrom(_, _, _, _)
BDivSmallFrom(A, d, i, rem) ==
    IF i = 0 THEN [q |-> << >>, r |-> rem]
    ELSE LET cur  == rem * Base + A[i]
             rest == BDivSmallFrom(A, d, i - 1, cur % d)
         IN  [q |-> Append(rest.q, cur \div d), r |-> rest.r]

BDivSmall(A, d) ==
    LET res == BDivSmallFrom(A, d, Len(A), 0)
    IN  [q |-> BNorm(res.q), r |-> res.r]

\* A * 2^s
BShl(A, s) ==
    IF A = << >> THEN << >>
    ELSE Zeros(s \div LimbBits) \o BMulSmall(A, 2 ^ (s % LimbBits))

\* floor(A / 2^s)
BShr(A, s) ==
    IF s \div LimbBits >= Len(A) THEN << >>
    ELSE BDivSmall(SubSeq(A, s \div LimbBits + 1, Len(A)), 2 ^ (s % LimbBits)).q

RECURSIVE NatBitLen(_)
NatBitLen(n) == IF n = 0 THEN 0 ELSE 1 + NatBitLen(n \div 2)

BitLen(A) ==
    IF A = << >> THEN 0 ELSE (Len(A) - 1) * LimbBits + NatBitLen(A[Len(A)])

BOdd(A) == A # << >> /\ A[1] % 2 = 1

---------------------------------------------------------------------------
(* binary64 arithmetic, round to nearest, ties to even.                    *)

\* The natural number A (with `sticky' telling that non-zero bits below it
\* were cut off), rounded to MantBits significant bits: the bits below the
\* lowest kept one are cleared, and one unit at that bit is added when they
\* came to more than half of it, or to half of it with the kept part odd.
Round53(A, sticky) ==
    LET s == BitLen(A) - MantBits
    IN  IF s <= 0 THEN A
        ELSE LET a    == s \div LimbBits
                 b    == s % LimbBits
                 unit == 2 ^ b
                 cut  == A[a + 1] % unit
                 odd  == (A[a + 1] \div unit) % 2 = 1
                 g    == IF b > 0 THEN (cut \div (unit \div 2)) = 1
                         ELSE A[a] >= Base \div 2
                 rest == IF b > 0
                         THEN \/ cut % (unit \div 2) # 0
                              \/ \E i \in 1..a : A[i] # 0
                         ELSE \/ A[a] % (Base \div 2) # 0
                              \/ \E i \in 1..(a - 1) : A[i] # 0
                 kept == [i \in 1..Len(A) |->
                            IF i <= a THEN 0
                            ELSE IF i = a + 1 THEN A[i] - cut ELSE A[i]]
             IN  IF g /\ (rest \/ sticky \/ odd)
                 THEN BAdd(kept, Zeros(a) \o <<unit>>)
                 ELSE kept

Float(neg, mag) == [neg |-> neg /\ mag # << >>, mag |-> mag]

FZero == Float(FALSE, << >>)

Abs(n) == IF n < 0 THEN -n ELSE n

\* float(n) of a small integer
FFromInt(n) ==
    IF n = 0 THEN FZero ELSE Float(n < 0, Zeros(FracLimbs) \o BFromNat(Abs(n)))

\* n / d of two small integers, d > 0: Python's true division of ints, which
\* is the correctly rounded quotient; also the value of a decimal literal
RECURSIVE DivAll(_, _, _)
DivAll(A, ds, sticky) ==
    IF ds = << >> THEN [q |-> A, sticky |-> sticky]
    ELSE LET one == BDivSmall(A, Head(ds))
         IN  DivAll(one.q, Tail(ds), sticky \/ one.r # 0)

FDivInts(n, ds) ==
    IF n = 0 THEN FZero
    ELSE LET res == DivAll(Zeros(FracLimbs) \o BFromNat(Abs(n)), ds, FALSE)
         IN  Float(n < 0, Round53(res.q, res.sticky))

FMul(x, y) ==
    LET p == Round53(BMul(x.mag, y.mag), FALSE)
    IN  Float(x.neg # y.neg, SubSeq(p, FracLimbs + 1, Len(p)))

FAdd(x, y) ==
    IF x.neg = y.neg THEN Float(x.neg, Round53(BAdd(x.mag, y.mag), FALSE))
    ELSE IF BCmp(x.mag, y.mag) >= 0
         THEN Float(x.neg, Round53(BSub(x.mag, y.mag), FALSE))
         ELSE Float(y.neg, Round53(BSub(y.mag, x.mag), FALSE))

\* x < 0
FNegative(x) == x.neg

\* x <= y
FLeq(x, y) ==
    IF x.neg /\ ~y.neg THEN TRUE
    ELSE IF ~x.neg /\ y.neg THEN FALSE
    ELSE IF x.neg THEN BCmp(x.mag, y.mag) >= 0
    ELSE BCmp(x.mag, y.mag) <= 0

---------------------------------------------------------------------------
(* The instruments the module declares, in the order it constructs them.   *)
(* A name is the sequence of its words, "_" between them left out; a       *)
(* bucket bound is written as its decimal literal.                         *)

\* the decimal literal n / (the product of ds), and the float it denotes
D(n, ds) == [num |-> n, den |-> ds]
Dec(n, ds) == FDivInts(n, ds)
FloatOf(lit) == FDivInts(lit.num, lit.den)

Instrument(var, kind, name, labelnames, buckets) ==
    [var |-> var, kind |-> kind, name |-> name,
     labelnames |-> labelnames, buckets |-> buckets]

APP_INFO ==
    Instrument("APP_INFO", "info", <<"careplan", "app">>, << >>, << >>)

ORDER_CREATED_TOTAL ==
    Instrument("ORDER_CREATED_TOTAL", "counter",
               <<"careplan", "order", "created", "total">>, <<"status">>, << >>)

ORDER_CREATE_DURATION_SECONDS ==
    Instrument("ORDER_CREATE_DURATION_SECONDS", "histogram",
               <<"careplan", "order", "create", "duration", "seconds">>, << >>,
               <<D(5, <<100>>), D(1, <<10>>), D(25, <<100>>), D(5, <<10>>),
                 D(1, <<1>>), D(25, <<10>>), D(5, <<1>>), D(10, <<1>>)>>)

DUPLICATE_DETECTION_TOTAL ==
    Instrument("DUPLICATE_DETECTION_TOTAL", "counter",
               <<"careplan", "duplicate", "detection", "total">>,
               <<"entity_type", "result">>, << >>)

CARE_PLAN_GENERATION_TOTAL ==
    Instrument("CARE_PLAN_GENERATION_TOTAL", "counter",
               <<"careplan", "generation", "total">>, <<"status">>, << >>)

CARE_PLAN_GENERATION_DURATION_SECONDS ==
    Instrument("CARE_PLAN_GENERATION_DURATION_SECONDS", "histogram",
               <<"careplan", "generation", "duration", "seconds">>, << >>,
               <<D(1, <<1>>), D(25, <<10>>), D(5, <<1>>), D(10, <<1>>),
                 D(20, <<1>>), D(30, <<1>>), D(60, <<1>>), D(120, <<1>>)>>)

CARE_PLAN_QUEUE_SIZE ==
    Instrument("CARE_PLAN_QUEUE_SIZE", "gauge",
               <<"careplan", "queue", "size">>, << >>, << >>)

CARE_PLAN_QUEUED_TOTAL ==
    Instrument("CARE_PLAN_QUEUED_TOTAL", "counter",
               <<"careplan", "queued", "total">>, <<"status">>, << >>)

CARE_PLAN_RETRY_TOTAL ==
    Instrument("CARE_PLAN_RETRY_TOTAL", "counter",
               <<"careplan", "retry", "total">>, << >>, << >>)

LLM_REQUEST_TOTAL ==
    Instrument("LLM_REQUEST_TOTAL", "counter",
               <<"careplan", "llm", "request", "total">>,
               <<"provider", "status">>, << >>)

LLM_REQUEST_DURATION_SECONDS ==
    Instrument("LLM_REQUEST_DURATION_SECONDS", "histogram",
               <<"careplan", "llm", "request", "duration", "seconds">>,
               <<"provider">>,
               <<D(5, <<10>>), D(1, <<1>>), D(25, <<10>>), D(5, <<1>>),
                 D(10, <<1>>), D(20, <<1>>), D(30, <<1>>), D(60, <<1>>)>>)

LLM_TOKENS_USED_TOTAL ==
    Instrument("LLM_TOKENS_USED_TOTAL", "counter",
               <<"careplan", "llm", "tokens", "total">>,
               <<"provider", "token_type">>, << >>)

LLM_COST_DOLLARS_TOTAL ==
    Instrument("LLM_COST_DOLLARS_TOTAL", "counter",
               <<"careplan", "llm", "cost", "dollars", "total">>,
               <<"provider", "model">>, << >>)

API_REQUEST_TOTAL ==
    Instrument("API_REQUEST_TOTAL", "counter",
               <<"careplan", "api", "request", "total">>,
               <<"method", "endpoint", "status_code">>, << >>)

API_REQUEST_DURATION_SECONDS ==
    Instrument("API_REQUEST_DURATION_SECONDS", "histogram",
               <<"careplan", "api", "request", "duration", "seconds">>,
               <<"method", "endpoint">>,
               <<D(1, <<100>>), D(25, <<1000>>), D(5, <<100>>),
                 D(1, <<10>>), D(25, <<100>>), D(5, <<10>>),
                 D(1, <<1>>), D(25, <<10>>), D(5, <<1>>)>>)

API_ERRORS_TOTAL ==
    Instrument("API_ERRORS_TOTAL", "counter",
               <<"careplan", "api", "errors", "total">>,
               <<"method", "endpoint", "error_type">>, << >>)

DB_QUERY_DURATION_SECONDS ==
    Instrument("DB_QUERY_DURATION_SECONDS", "histogram",
               <<"careplan", "db", "query", "duration", "seconds">>,
               <<"operation">>,
               <<D(1, <<1000>>), D(5, <<1000>>), D(1, <<100>>),
                 D(25, <<1000>>), D(5, <<100>>), D(1, <<10>>),
                 D(25, <<100>>), D(5, <<10>>)>>)

CARE_PLAN_SUCCESS_RATE ==
    Instrument("CARE_PLAN_SUCCESS_RATE", "gauge",
               <<"careplan", "success", "rate">>, << >>, << >>)

CARE_PLAN_P95_LATENCY_SECONDS ==
    Instrument("CARE_PLAN_P95_LATENCY_SECONDS", "gauge",
               <<"careplan", "p95", "latency", "seconds">>, << >>, << >>)

\* the module body, statement by statement
Declarations ==
    <<APP_INFO, ORDER_CREATED_TOTAL, ORDER_CREATE_DURATION_SECONDS,
      DUPLICATE_DETECTION_TOTAL, CARE_PLAN_GENERATION_TOTAL,
      CARE_PLAN_GENERATION_DURATION_SECONDS, CARE_PLAN_QUEUE_SIZE,
      CARE_PLAN_QUEUED_TOTAL, CARE_PLAN_RETRY_TOTAL, LLM_REQUEST_TOTAL,
      LLM_REQUEST_DURATION_SECONDS, LLM_TOKENS_USED_TOTAL,
      LLM_COST_DOLLARS_TOTAL, API_REQUEST_TOTAL, API_REQUEST_DURATION_SECONDS,
      API_ERRORS_TOTAL, DB_QUERY_DURATION_SECONDS, CARE_PLAN_SUCCESS_RATE,
      CARE_PLAN_P95_LATENCY_SECONDS>>

Range(f) == {f[i] : i \in DOMAIN f}

\* The name an instrument is kept under: a counter's without its "total".
FullName(kind, name) ==
    IF kind = "counter" /\ name # << >> /\ name[Len(name)] = "total"
    THEN SubSeq(name, 1, Len(name) - 1)
    ELSE name

\* The time series an instrument of this kind and name exposes; the registry
\* admits no two instruments that share one.
TimeseriesNames(kind, name) ==
    LET full == FullName(kind, name)
        suffixes == CASE kind = "counter"   -> {"total", "created"}
                      [] kind = "histogram" -> {"bucket", "sum", "count", "created"}
                      [] kind = "info"      -> {"info"}
                      [] OTHER              -> {}
    IN  {full} \cup {Append(full, sfx) : sfx \in suffixes}

\* the declaration that binds the module variable v
Declared(v) == CHOOSE d \in Range(Declarations) : d.var = v

\* A registry is the sequence of the instruments registered, each named by
\* the module variable it was made for.
RegisteredNames(reg) ==
    UNION {TimeseriesNames(Declared(reg[i]).kind, Declared(reg[i]).name) :
              i \in DOMAIN reg}

RegisterUnchecked(reg, inst) ==
    [registry |-> Append(reg, inst.var), raised |-> "none"]

\* CollectorRegistry.register, as each constructor calls it: the instrument
\* is appended unless one of its time series is taken, which raises.
Register(reg, inst) ==
    IF TimeseriesNames(inst.kind, inst.name) \cap RegisteredNames(reg) # {}
    THEN [registry |-> reg, raised |-> "ValueError"]
    ELSE [registry |-> Append(reg, inst.var), raised |-> "none"]

---------------------------------------------------------------------------
(* record_llm_cost and init_app_info.                                      *)

\* LLM pricing per 1K tokens
LLM_PRICING ==
    [m \in {"claude-sonnet-4-20250514", "claude-3-5-sonnet-20241022",
            "claude-3-opus-20240229", "gpt-4o", "gpt-4o-mini", "gpt-4-turbo"} |->
       CASE m = "claude-sonnet-4-20250514" ->
              [input |-> Dec(3, <<1000>>), output |-> Dec(15, <<1000>>)]
         [] m = "claude-3-5-sonnet-20241022" ->
              [input |-> Dec(3, <<1000>>), output |-> Dec(15, <<1000>>)]
         [] m = "claude-3-opus-20240229" ->
              [input |-> Dec(15, <<1000>>), output |-> Dec(75, <<1000>>)]
         [] m = "gpt-4o" ->
              [input |-> Dec(5, <<1000>>), output |-> Dec(15, <<1000>>)]
         [] m = "gpt-4o-mini" ->
              [input |-> Dec(15, <<1000, 100>>), output |-> Dec(6, <<1000, 10>>)]
         [] m = "gpt-4-turbo" ->
              [input |-> Dec(1, <<100>>), output |-> Dec(3, <<100>>)]]

DefaultPricing == [input |-> Dec(1, <<100>>), output |-> Dec(3, <<100>>)]

\* LLM_PRICING.get(model, default)
PricingNoDefault(model) ==
    IF model \in DOMAIN LLM_PRICING THEN LLM_PRICING[model]
    ELSE [input |-> FZero, output |-> FZero]

Pricing(model) ==
    IF model \in DOMAIN LLM_PRICING THEN LLM_PRICING[model] ELSE DefaultPricing

\* (prompt_tokens / 1000 * input) + (completion_tokens / 1000 * output)
CostAt(pricing, prompt_tokens, completion_tokens) ==
    FAdd(FMul(FDivInts(prompt_tokens, <<1000>>), pricing.input),
         FMul(FDivInts(completion_tokens, <<1000>>), pricing.output))

Cost(model, prompt_tokens, completion_tokens) ==
    CostAt(Pricing(model), prompt_tokens, completion_tokens)

\* the children of a labelled instrument: label values -> value
NoChildren == [k \in {} |-> FZero]

LabelValuesByProvider(provider, model) == <<provider, provider>>

\* .labels(provider=provider, model=model): the values in the order of the
\* instrument's label names
LabelValues(provider, model) == <<provider, model>>

LabelsReplace(children, key) ==
    [k \in {key} |-> IF k \in DOMAIN children THEN children[k] ELSE FZero]

\* .labels(...): the child of these label values, made at 0.0 when there is
\* none yet
Labels(children, key) ==
    [k \in DOMAIN children \cup {key} |->
        IF k \in DOMAIN children THEN children[k] ELSE FZero]

CounterIncUnchecked(children, key, amount) ==
    [children |-> [children EXCEPT ![key] = FAdd(@, amount)], raised |-> "none"]

\* Counter.inc(amount) on the child `key': a negative amount raises and
\* leaves the value alone
CounterInc(children, key, amount) ==
    IF FNegative(amount)
    THEN [children |-> children, raised |-> "ValueError"]
    ELSE [children |-> [children EXCEPT ![key] = FAdd(@, amount)],
          raised |-> "none"]

EmptyInfo == [k \in {} |-> ""]

InfoSetOnce(value, val) == IF value = EmptyInfo THEN val ELSE value

\* Info.info(val): the value becomes a copy of val
InfoSet(value, val) == val

\* A lock of the library (threading.Lock): 0 when free, else its holder.
LockIgnored(locks, id) == TRUE

\* `with lock:' is entered only while the lock is free
LockFree(locks, id) == locks[id] = 0

\* Histogram: the upper bounds are float(b) for each declared bucket, then
\* +Inf. The finite ones are kept; +Inf is the bound after the last of them.
UpperBounds(inst) == [i \in 1..Len(inst.buckets) |-> FloatOf(inst.buckets[i])]

NumBuckets(bounds) == Len(bounds) + 1

\* amount <= the i-th upper bound
LeqBound(amount, bounds, i) == i > Len(bounds) \/ FLeq(amount, bounds[i])

\* a histogram child: the running sum and one count per upper bound, each
\* count holding the observations that fell in that bucket and in no
\* lower one
NewHistogram(bounds) ==
    [sum |-> FZero, buckets |-> [i \in 1..NumBuckets(bounds) |-> 0]]

NoHistograms == [k \in {} |-> NewHistogram(<< >>)]

\* .labels(...) of a histogram: the child of these label values, made empty
\* when there is none yet
HistogramLabels(children, key, bounds) ==
    [k \in DOMAIN children \cup {key} |->
        IF k \in DOMAIN children THEN children[k] ELSE NewHistogram(bounds)]

\* the first bucket whose bound the amount does not exceed
RECURSIVE FirstBucket(_, _, _)
FirstBucket(bounds, amount, i) ==
    IF LeqBound(amount, bounds, i) THEN i
    ELSE FirstBucket(bounds, amount, i + 1)

ObserveEveryBucket(child, bounds, amount) ==
    [sum |-> FAdd(child.sum, amount),
     buckets |-> [i \in 1..NumBuckets(bounds) |->
                    IF LeqBound(amount, bounds, i) THEN child.buckets[i] + 1
                    ELSE child.buckets[i]]]

\* Histogram.observe(amount): the sum takes the amount, and the first
\* bucket whose bound is not below the amount takes one more
Observe(child, bounds, amount) ==
    [sum |-> FAdd(child.sum, amount),
     buckets |-> [child.buckets EXCEPT ![FirstBucket(bounds, amount, 1)] = @ + 1]]

CumulativeNot(buckets, i) == buckets[i]

\* what a scrape reports for the bucket of the i-th bound: the counts up to
\* it, added up
RECURSIVE Cumulative(_, _)
Cumulative(buckets, i) ==
    IF i = 0 THEN 0 ELSE buckets[i] + Cumulative(buckets, i - 1)

\* the _bucket, _count and _sum samples of a child
BucketSample(child, i) == Cumulative(child.buckets, i)
CountSample(child) == Cumulative(child.buckets, Len(child.buckets))
SumSample(child) == child.sum


---------------------------------------------------------------------------
(* The process: the module body runs, then callers use its functions.      *)

MaxCalls == 2

Providers == {"claude", "x"}
Models == {"claude-sonnet-4-20250514", "gpt-4o-mini", "unknown-model"}
\* <<prompt_tokens, completion_tokens>>
TokenUsages == {<<1000, 500>>, <<2000, 1000>>, <<0, 0>>, <<-1000, 0>>,
                <<2000, -500>>}
Versions == {"1.2.3", "1.2.4"}
Environments == {"prod", "staging"}

VARIABLES
    phase,        \* "unloaded" | "ready" | "failed": the module's import
    registry,     \* the instruments registered, in order
    cost_total,   \* LLM_COST_DOLLARS_TOTAL's children
    app_info,     \* APP_INFO's value
    calls,        \* how many calls were made
    last,         \* the last operation, its arguments, what it raised
    observed      \* the label values ever passed to LLM_COST_DOLLARS_TOTAL

\* one declared histogram under observation
VARIABLES
    histogram,      \* which one
    upper_bounds,   \* its upper bounds
    hist_children,  \* its children: label values -> sum and buckets
    hist_seen       \* per child, the amounts observed, in order

histVars == <<histogram, upper_bounds, hist_children, hist_seen>>

\* threads of the process calling into two of the counters
VARIABLES
    order_created_total,  \* ORDER_CREATED_TOTAL's children
    pc,           \* per thread, where it is in its call
    frame,        \* per thread, its call and the locals of the call
    metric_lock,  \* per counter, the holder of the lock labels() takes
    value_lock,   \* per child, the holder of the lock of its value
    applied       \* per child, the threads that stored into it, in order

concVars == <<order_created_total, pc, frame, metric_lock, value_lock,
              applied>>

vars == <<phase, registry, cost_total, app_info, calls, last, observed,
          histVars, concVars>>

Op(op, args, raised) == [op |-> op, args |-> args, raised |-> raised]

\* no histogram is under observation
HistIdle ==
    /\ histogram = "none"
    /\ upper_bounds = << >>
    /\ hist_children = NoHistograms
    /\ hist_seen = << >>

\* no thread is running
ConcIdle ==
    /\ order_created_total = NoChildren
    /\ pc = << >>
    /\ frame = << >>
    /\ metric_lock = << >>
    /\ value_lock = << >>
    /\ applied = << >>

Init ==
    /\ phase = "unloaded"
    /\ registry = << >>
    /\ cost_total = NoChildren
    /\ app_info = EmptyInfo
    /\ calls = 0
    /\ last = Op("none", << >>, "none")
    /\ observed = {}
    /\ HistIdle
    /\ ConcIdle

\* The module body from its i-th declaration on: each instrument is
\* constructed and registers itself; the first raise ends the run.
RECURSIVE RunBody(_, _)
RunBody(reg, i) ==
    IF i > Len(Declarations) THEN [registry |-> reg, raised |-> "none", stmt |-> i]
    ELSE LET r == Register(reg, Declarations[i])
         IN  IF r.raised # "none"
             THEN [registry |-> r.registry, raised |-> r.raised, stmt |-> i]
             ELSE RunBody(r.registry, i + 1)

\* The module is imported: at startup, and again when the body is run a
\* second time in the process (a reload, an import under a second path).
\* The instruments made by an earlier run stay as they are.
Import ==
    /\ phase \in {"unloaded", "ready"}
    /\ \E r \in {RunBody(registry, 1)} :
           /\ registry' = r.registry
           /\ last' = Op("import", <<r.stmt>>, r.raised)
           /\ phase' = IF r.raised = "none" THEN "ready"
                       ELSE IF phase = "ready" THEN "ready" ELSE "failed"
    /\ UNCHANGED <<cost_total, app_info, calls, observed, histVars,
                   concVars>>

record_llm_cost(provider, model, prompt_tokens, completion_tokens) ==
    /\ phase = "ready"
    /\ calls < MaxCalls
    /\ \E r \in {CounterInc(Labels(cost_total, LabelValues(provider, model)),
                              LabelValues(provider, model),
                              Cost(model, prompt_tokens, completion_tokens))} :
           /\ cost_total' = r.children
           /\ observed' = observed \cup {<<provider, model>>}
           /\ last' = Op("record_llm_cost",
                         <<provider, model, prompt_tokens, completion_tokens>>,
                         r.raised)
    /\ calls' = calls + 1
    /\ UNCHANGED <<phase, registry, app_info, histVars, concVars>>

init_app_info(version, environment) ==
    /\ phase = "ready"
    /\ calls < MaxCalls
    /\ app_info' = InfoSet(app_info, [version |-> version,
                                      environment |-> environment])
    /\ last' = Op("init_app_info", <<version, environment>>, "none")
    /\ calls' = calls + 1
    /\ UNCHANGED <<phase, registry, cost_total, observed, histVars,
                   concVars>>

Next ==
    \/ Import
    \/ \E p \in Providers, m \in Models, u \in TokenUsages :
          record_llm_cost(p, m, u[1], u[2])
    \/ \E v \in Versions, e \in Environments : init_app_info(v, e)

Spec == Init /\ [][Next]_vars

---------------------------------------------------------------------------
(* Observations of one declared histogram, after the module was imported.  *)

MaxObs == 3

Histograms == {d.var : d \in {d \in Range(Declarations) : d.kind = "histogram"}}

\* the values callers give to a label
LabelTexts == {"a", "b"}

\* the label values a caller can pass: one per label name; the first
\* label varies
LabelVectors(inst) ==
    IF inst.labelnames = << >> THEN {<< >>}
    ELSE {[i \in 1..Len(inst.labelnames) |-> IF i = 1 THEN x ELSE "a"] :
             x \in LabelTexts}

\* the amounts observed, as the decimal literals a caller writes
Observations ==
    {D(3, <<100>>), D(2, <<10>>), D(3, <<10>>), D(5, <<100>>), D(1, <<1>>),
     D(200, <<1>>)}

\* An instrument without label names is its own child from construction
\* on; a labelled one has no child until .labels() is called.
InitHist ==
    /\ phase = "ready"
    /\ registry = RunBody(<< >>, 1).registry
    /\ cost_total = NoChildren
    /\ app_info = EmptyInfo
    /\ calls = 0
    /\ last = Op("import", <<Len(Declarations) + 1>>, "none")
    /\ observed = {}
    /\ histogram \in Histograms
    /\ upper_bounds = UpperBounds(Declared(histogram))
    /\ hist_children =
          IF Declared(histogram).labelnames = << >>
          THEN HistogramLabels(NoHistograms, << >>, upper_bounds)
          ELSE NoHistograms
    /\ hist_seen = [k \in DOMAIN hist_children |-> << >>]
    /\ ConcIdle

\* <histogram>.labels(*labelvalues).observe(amount), or
\* <histogram>.observe(amount) when the histogram has no label names
observe(labelvalues, lit) ==
    /\ calls < MaxObs
    /\ labelvalues \in LabelVectors(Declared(histogram))
    /\ \E amount \in {FloatOf(lit)} :
          /\ hist_children' =
                [HistogramLabels(hist_children, labelvalues, upper_bounds)
                   EXCEPT ![labelvalues] = Observe(@, upper_bounds, amount)]
          /\ hist_seen' =
                [k \in DOMAIN hist_seen \cup {labelvalues} |->
                   IF k = labelvalues
                   THEN (IF k \in DOMAIN hist_seen THEN hist_seen[k] ELSE << >>)
                        \o <<[lit |-> lit, amount |-> amount]>>
                   ELSE hist_seen[k]]
    /\ calls' = calls + 1
    /\ last' = Op("observe", <<histogram, labelvalues, lit>>, "none")
    /\ UNCHANGED <<phase, registry, cost_total, app_info, observed,
                   histogram, upper_bounds, concVars>>

NextHist ==
    \E k \in UNION {LabelVectors(Declared(h)) : h \in Histograms},
       v \in Observations : observe(k, v)

SpecHist == InitHist /\ [][NextHist]_vars

---------------------------------------------------------------------------
(* Threads calling into the counters at the same time, after the module    *)
(* was imported. A call is taken apart into the steps another thread can   *)
(* come between.                                                           *)

NThreads == 3
Threads == 1..NThreads

\* what a thread calls: ORDER_CREATED_TOTAL.labels(status="success").inc()
\* or record_llm_cost(provider, model, prompt_tokens, completion_tokens)
ConcCalls ==
    {[op |-> "inc", args |-> <<"success">>],
     [op |-> "record_llm_cost",
      args |-> <<"claude", "claude-sonnet-4-20250514", 1000, 500>>],
     [op |-> "record_llm_cost",
      args |-> <<"claude", "claude-sonnet-4-20250514", 2000, 1000>>]}

CounterOf(call) ==
    IF call.op = "inc" THEN "ORDER_CREATED_TOTAL" ELSE "LLM_COST_DOLLARS_TOTAL"

KeyOf(call) ==
    IF call.op = "inc" THEN call.args
    ELSE LabelValues(call.args[1], call.args[2])

\* inc() adds 1; record_llm_cost adds the cost it computed
AmountOf(call) ==
    IF call.op = "inc" THEN FFromInt(1)
    ELSE Cost(call.args[2], call.args[3], call.args[4])

ConcCounters == {CounterOf(c) : c \in ConcCalls}
ChildIds == {<<CounterOf(c), KeyOf(c)>> : c \in ConcCalls}
ChildOf(t) == <<frame[t].counter, frame[t].key>>

ChildrenOf(counter) ==
    IF counter = "LLM_COST_DOLLARS_TOTAL" THEN cost_total
    ELSE order_created_total

SetChildren(counter, children) ==
    /\ cost_total' = IF counter = "LLM_COST_DOLLARS_TOTAL" THEN children
                     ELSE cost_total
    /\ order_created_total' = IF counter = "ORDER_CREATED_TOTAL" THEN children
                              ELSE order_created_total

NoFrame ==
    [call |-> [op |-> "none", args |-> << >>], counter |-> "none",
     key |-> << >>, amount |-> FZero, read |-> FZero]

InitConc ==
    /\ phase = "ready"
    /\ registry = RunBody(<< >>, 1).registry
    /\ cost_total = NoChildren
    /\ app_info = EmptyInfo
    /\ calls = 0
    /\ last = Op("import", <<Len(Declarations) + 1>>, "none")
    /\ observed = {}
    /\ HistIdle
    /\ order_created_total = NoChildren
    /\ pc = [t \in Threads |-> "idle"]
    /\ frame = [t \in Threads |-> NoFrame]
    /\ metric_lock = [c \in ConcCounters |-> 0]
    /\ value_lock = [id \in ChildIds |-> 0]
    /\ applied = [id \in ChildIds |-> << >>]

\* the thread enters its call; record_llm_cost computes the cost
Call(t, call) ==
    /\ pc[t] = "idle"
    /\ frame' = [frame EXCEPT ![t] =
                    [call |-> call, counter |-> CounterOf(call),
                     key |-> KeyOf(call), amount |-> AmountOf(call),
                     read |-> FZero]]
    /\ pc' = [pc EXCEPT ![t] = "labels"]
    /\ UNCHANGED <<cost_total, order_created_total, metric_lock, value_lock,
                   applied>>

\* .labels(): the counter's lock is taken
LabelsEnter(t) ==
    /\ pc[t] = "labels"
    /\ LockFree(metric_lock, frame[t].counter)
    /\ metric_lock' = [metric_lock EXCEPT ![frame[t].counter] = t]
    /\ pc' = [pc EXCEPT ![t] = "in_labels"]
    /\ UNCHANGED <<cost_total, order_created_total, frame, value_lock, applied>>

\* .labels(): the child is looked up, made when missing, and the lock is
\* given back
LabelsReturn(t) ==
    /\ pc[t] = "in_labels"
    /\ SetChildren(frame[t].counter,
                   Labels(ChildrenOf(frame[t].counter), frame[t].key))
    /\ metric_lock' = [metric_lock EXCEPT ![frame[t].counter] = 0]
    /\ pc' = [pc EXCEPT ![t] = "inc"]
    /\ UNCHANGED <<frame, value_lock, applied>>

\* .inc(amount): a negative amount raises; else the lock of the child's
\* value is taken
IncEnter(t) ==
    /\ pc[t] = "inc"
    /\ IF FNegative(frame[t].amount)
       THEN /\ pc' = [pc EXCEPT ![t] = "raised"]
            /\ UNCHANGED value_lock
       ELSE /\ LockFree(value_lock, ChildOf(t))
            /\ value_lock' = [value_lock EXCEPT ![ChildOf(t)] = t]
            /\ pc' = [pc EXCEPT ![t] = "locked"]
    /\ UNCHANGED <<cost_total, order_created_total, frame, metric_lock, applied>>

\* self._value += amount: the value is read ...
Load(t) ==
    /\ pc[t] = "locked"
    /\ frame' = [frame EXCEPT ![t].read = ChildrenOf(frame[t].counter)[frame[t].key]]
    /\ pc' = [pc EXCEPT ![t] = "loaded"]
    /\ UNCHANGED <<cost_total, order_created_total, metric_lock, value_lock,
                   applied>>

\* ... and what was read, plus the amount, is written back
Store(t) ==
    /\ pc[t] = "loaded"
    /\ SetChildren(frame[t].counter,
                   [ChildrenOf(frame[t].counter) EXCEPT
                      ![frame[t].key] = FAdd(frame[t].read, frame[t].amount)])
    /\ applied' = [applied EXCEPT ![ChildOf(t)] = Append(@, t)]
    /\ pc' = [pc EXCEPT ![t] = "stored"]
    /\ UNCHANGED <<frame, metric_lock, value_lock>>

\* the lock of the value is given back and the call returns
IncReturn(t) ==
    /\ pc[t] = "stored"
    /\ value_lock' = [value_lock EXCEPT ![ChildOf(t)] = 0]
    /\ pc' = [pc EXCEPT ![t] = "done"]
    /\ UNCHANGED <<cost_total, order_created_total, frame, metric_lock, applied>>

ConcStep ==
    \/ \E t \in Threads, c \in ConcCalls : Call(t, c)
    \/ \E t \in Threads : LabelsEnter(t)
    \/ \E t \in Threads : LabelsReturn(t)
    \/ \E t \in Threads : IncEnter(t)
    \/ \E t \in Threads : Load(t)
    \/ \E t \in Threads : Store(t)
    \/ \E t \in Threads : IncReturn(t)

NextConc ==
    /\ ConcStep
    /\ UNCHANGED <<phase, registry, app_info, calls, last, observed, histVars>>

SpecConc == InitConc /\ [][NextConc]_vars

---------------------------------------------------------------------------
(* What the claims are stated with.                                        *)

\* the rates of a model as the pricing table writes them, in units of
\* 10^-5 dollars per 1000 tokens
DecimalRates(model) ==
    CASE model \in {"claude-sonnet-4-20250514", "claude-3-5-sonnet-20241022"} ->
           [input |-> 300, output |-> 1500]
      [] model = "claude-3-opus-20240229" -> [input |-> 1500, output |-> 7500]
      [] model = "gpt-4o" -> [input |-> 500, output |-> 1500]
      [] model = "gpt-4o-mini" -> [input |-> 15, output |-> 60]
      [] model = "gpt-4-turbo" -> [input |-> 1000, output |-> 3000]
      [] OTHER -> [input |-> 1000, output |-> 3000]

\* prompt_tokens/1000 * input + completion_tokens/1000 * output as a real
\* number, in units of 10^-8 dollars
RealCost(model, prompt_tokens, completion_tokens) ==
    prompt_tokens * DecimalRates(model).input
    + completion_tokens * DecimalRates(model).output

\* the float nearest to a real number of 10^-8 dollars
NearestFloat(c) == Dec(c, <<10000, 10000>>)

\* new - old is the real number c * 10^-8 up to the rounding of float
\* arithmetic: |(new - old) - c * 10^-8| <= 2^-50 * (c * 10^-8 + new)
WithinRounding(old, new, c) ==
    /\ c >= 0
    /\ ~old.neg /\ ~new.neg
    /\ BCmp(new.mag, old.mag) >= 0
    /\ LET x == BMulSmall(BMulSmall(BSub(new.mag, old.mag), 10000), 10000)
           y == IF c = 0 THEN << >> ELSE Zeros(FracLimbs) \o BFromNat(c)
           d == IF BCmp(x, y) >= 0 THEN BSub(x, y) ELSE BSub(y, x)
       IN  BCmp(BShl(d, 50),
                BAdd(y, BMulSmall(BMulSmall(new.mag, 10000), 10000))) <= 0

ValueOf(children, key) ==
    IF key \in DOMAIN children THEN children[key] ELSE FZero

\* this step is a call of record_llm_cost / of init_app_info
RecordStep == last'.op = "record_llm_cost" /\ calls' = calls + 1
InfoStep == last'.op = "init_app_info" /\ calls' = calls + 1

Sonnet4 == "claude-sonnet-4-20250514"

---------------------------------------------------------------------------
(* C1: one successful call record_llm_cost(provider, model, p, c) with     *)
(* non-negative token counts adds p/1000 * input_rate + c/1000 *           *)
(* output_rate to the accumulator of (provider, model), the rates being    *)
(* the model's LLM_PRICING entry or the default.                           *)

\* C1 as stated: the accumulator grows by exactly that amount, that is, it
\* becomes old + the float nearest to the amount (0.0105 for
\* claude-sonnet-4-20250514 with 1000/500 tokens).
C1_AddsExactCost ==
    [][(RecordStep /\ last'.raised = "none"
           /\ last'.args[3] >= 0 /\ last'.args[4] >= 0)
        => LET a == last'.args
               k == <<a[1], a[2]>>
           IN  cost_total'[k] =
                   FAdd(ValueOf(cost_total, k),
                        NearestFloat(RealCost(a[2], a[3], a[4])))]_vars

\* C1 as amended: the accumulator grows by that amount up to the rounding
\* of float arithmetic.  With 1000/500 tokens claude-sonnet-4-20250514 adds
\* 0.003 + 0.0075, which as floats is 0.010499999999999999 and not 0.0105;
\* an unknown model with 2000/1000 tokens adds the float 0.05.
C1_AddsCostUpToRounding ==
    [][(RecordStep /\ last'.raised = "none"
           /\ last'.args[3] >= 0 /\ last'.args[4] >= 0)
        => LET a   == last'.args
               k   == <<a[1], a[2]>>
               old == ValueOf(cost_total, k)
               new == cost_total'[k]
           IN  /\ WithinRounding(old, new, RealCost(a[2], a[3], a[4]))
               /\ (a[2] = Sonnet4 /\ a[3] = 1000 /\ a[4] = 500)
                    => /\ new = FAdd(old, FAdd(Dec(3, <<1000>>),
                                               Dec(75, <<1000, 10>>)))
                       /\ old = FZero => new # Dec(105, <<1000, 10>>)
               /\ (a[2] = "unknown-model" /\ a[3] = 2000 /\ a[4] = 1000)
                    => new = FAdd(old, Dec(5, <<100>>))]_vars

C1_Witness ==
    /\ calls = 2
    /\ last = Op("record_llm_cost", <<"claude", Sonnet4, 1000, 500>>, "none")
    /\ <<"x", "unknown-model">> \in DOMAIN cost_total
    /\ cost_total[<<"x", "unknown-model">>] = Dec(5, <<100>>)
    /\ cost_total[<<"claude", Sonnet4>>] # FZero

---------------------------------------------------------------------------
(* C2: record_llm_cost and init_app_info have no error path; a negative    *)
(* token count adds a negative cost to the accumulator.                    *)

\* C2 as stated: no call raises.
C2_NoCallRaises ==
    last.op \in {"record_llm_cost", "init_app_info"} => last.raised = "none"

\* C2 as amended: init_app_info never raises.  record_llm_cost raises
\* ValueError exactly when the cost it computed is negative; no accumulator
\* changes its value then (the series of the label values is still made, at
\* 0.0, when there was none).  A call whose token counts are not negative
\* never raises.
C2_RaisesIffCostNegative ==
    [][/\ InfoStep => last'.raised = "none"
       /\ RecordStep =>
            LET a == last'.args
                k == <<a[1], a[2]>>
            IN  /\ last'.raised =
                      (IF FNegative(Cost(a[2], a[3], a[4]))
                       THEN "ValueError" ELSE "none")
                /\ (a[3] >= 0 /\ a[4] >= 0) => last'.raised = "none"
                /\ last'.raised # "none" =>
                      /\ DOMAIN cost_total' = DOMAIN cost_total \cup {k}
                      /\ \A j \in DOMAIN cost_total' :
                            cost_total'[j] = ValueOf(cost_total, j)]_vars

\* a call with a negative token count raised after an earlier call had
\* added to the same accumulator
C2_Witness ==
    /\ last = Op("record_llm_cost", <<"claude", Sonnet4, -1000, 0>>,
                 "ValueError")
    /\ <<"claude", Sonnet4>> \in DOMAIN cost_total
    /\ cost_total[<<"claude", Sonnet4>>] # FZero

---------------------------------------------------------------------------
(* C3: across any sequence of record_llm_cost calls no accumulator of      *)
(* careplan_llm_cost_dollars_total ever decreases or is reset.             *)

C3_CostNeverDecreases ==
    [][\A k \in DOMAIN cost_total :
          /\ k \in DOMAIN cost_total'
          /\ FLeq(cost_total[k], cost_total'[k])]_vars

\* an accumulator that holds something was offered a negative cost
C3_Witness ==
    /\ calls = 2
    /\ last.op = "record_llm_cost"
    /\ last.args[3] < 0
    /\ \E k \in DOMAIN cost_total :
          k = <<last.args[1], last.args[2]>> /\ cost_total[k] # FZero

---------------------------------------------------------------------------
(* C5: init_app_info is last-write-wins and never errors: the info record  *)
(* is exactly {version, environment} of the most recent call; a second     *)
(* call with the same arguments changes nothing.                           *)

C5_InfoLastWriteWins ==
    [][/\ InfoStep =>
            /\ app_info' = [version |-> last'.args[1],
                            environment |-> last'.args[2]]
            /\ last'.raised = "none"
            /\ (last.op = "init_app_info" /\ last.args = last'.args)
                  => app_info' = app_info
       /\ ~InfoStep => app_info' = app_info]_vars

\* a second init_app_info call, with other arguments than the record held
C5_Witness ==
    /\ calls = 2
    /\ cost_total = NoChildren
    /\ last = Op("init_app_info", <<"1.2.4", "staging">>, "none")
    /\ app_info = [version |-> "1.2.4", environment |-> "staging"]

---------------------------------------------------------------------------
(* C8: record_llm_cost(p, m, ...) changes only the accumulator of (p, m);  *)
(* every other accumulator is unchanged, and calls with the same (p, m)    *)
(* update the same accumulator.                                            *)

C8_OnlyOwnAccumulatorChanges ==
    [][RecordStep =>
          LET k == <<last'.args[1], last'.args[2]>>
          IN  /\ DOMAIN cost_total' = DOMAIN cost_total \cup {k}
              /\ \A j \in DOMAIN cost_total' \ {k} :
                    cost_total'[j] = cost_total[j]
              /\ (last'.raised = "none" /\ last'.args[3] > 0 /\ last'.args[4] > 0)
                    => /\ cost_total'[k] # ValueOf(cost_total, k)
                       /\ app_info' = app_info]_vars

\* two calls went to accumulators that differ in the provider alone
C8_Witness ==
    /\ calls = 2
    /\ DOMAIN cost_total = {<<"claude", Sonnet4>>, <<"x", Sonnet4>>}
    /\ cost_total[<<"claude", Sonnet4>>] # FZero
    /\ cost_total[<<"x", Sonnet4>>] # FZero

---------------------------------------------------------------------------
(* C9: the registry holds exactly the 19 declared instruments, under       *)
(* pairwise distinct names; registering an instrument under a used name    *)
(* is a fatal error that registers nothing; nothing after startup adds,    *)
(* removes or renames an instrument.                                       *)

\* how many time series the instruments of reg expose, counted one by one
RECURSIVE SeriesCount(_)
SeriesCount(reg) ==
    IF reg = << >> THEN 0
    ELSE Cardinality(TimeseriesNames(Declared(Head(reg)).kind,
                                     Declared(Head(reg)).name))
         + SeriesCount(Tail(reg))

\* no two instruments of reg share a declared name or a time series
NamesDistinct(reg) ==
    /\ Cardinality({Declared(reg[i]).name : i \in DOMAIN reg}) = Len(reg)
    /\ Cardinality(RegisteredNames(reg)) = SeriesCount(reg)

C9_RegistryFixed ==
    /\ [](phase = "ready" =>
            /\ Len(registry) = 19
            /\ registry = [i \in 1..Len(Declarations) |-> Declarations[i].var]
            /\ NamesDistinct(registry))
    /\ [](phase # "failed")
    /\ [][phase = "ready" =>
            /\ registry' = registry
            /\ phase' = "ready"
            /\ last'.op = "import" =>
                  /\ last'.raised = "ValueError"
                  /\ last'.args = <<1>>
                  /\ UNCHANGED <<cost_total, app_info, calls, observed>>]_vars

\* the module body was run again after instruments had been used
C9_Witness ==
    /\ phase = "ready"
    /\ calls = 2
    /\ cost_total # NoChildren
    /\ last = Op("import", <<1>>, "ValueError")

---------------------------------------------------------------------------
(* C10: the accumulator of a (provider, model) does not exist before the   *)
(* first record_llm_cost call for it; that call makes it, starting from 0  *)
(* (a call with 0/0 tokens leaves it at 0); the label vectors that exist   *)
(* are those ever observed, and none ever goes away.                       *)

C10_LazyAndPersistent ==
    /\ [](DOMAIN cost_total = observed)
    /\ [](phase = "unloaded" => cost_total = NoChildren)
    /\ [][/\ DOMAIN cost_total \subseteq DOMAIN cost_total'
          /\ RecordStep =>
                LET a == last'.args
                    k == <<a[1], a[2]>>
                IN  /\ observed' = observed \cup {k}
                    /\ k \notin DOMAIN cost_total =>
                          /\ (a[3] = 0 /\ a[4] = 0) => cost_total'[k] = FZero
                          /\ last'.raised # "none" => cost_total'[k] = FZero
                          /\ (a[3] >= 0 /\ a[4] >= 0) =>
                                WithinRounding(FZero, cost_total'[k],
                                               RealCost(a[2], a[3], a[4]))
          /\ ~RecordStep => DOMAIN cost_total' = DOMAIN cost_total]_vars

\* a first call with no tokens made a series, beside one that was there
C10_Witness ==
    /\ calls = 2
    /\ last = Op("record_llm_cost", <<"x", "unknown-model", 0, 0>>, "none")
    /\ cost_total[<<"x", "unknown-model">>] = FZero
    /\ Cardinality(DOMAIN cost_total) = 2


---------------------------------------------------------------------------
(* Histograms (SpecHist).                                                  *)

\* the amounts a child has seen, and their float sum taken in the order
\* they were observed, from 0.0
Amounts(k) == [i \in 1..Len(hist_seen[k]) |-> hist_seen[k][i].amount]
Literals(k) == [i \in 1..Len(hist_seen[k]) |-> hist_seen[k][i].lit]

RECURSIVE SumUpTo(_, _)
SumUpTo(vs, n) == IF n = 0 THEN FZero ELSE FAdd(SumUpTo(vs, n - 1), vs[n])

NumLeq(vs, i) ==
    Cardinality({j \in 1..Len(vs) : LeqBound(vs[j], upper_bounds, i)})

\* C6: for the histogram under observation and each of its label vectors,
\* after the values v1..vn were observed the bucket of every upper bound b
\* (the implicit +Inf included) reports the number of vi <= b, so the
\* reported counts never decrease along ascending bounds and a value above
\* the largest bound is counted in the +Inf bucket only; the count
\* reported is n and the sum reported is v1 + ... + vn, added in floats in
\* the order observed.
C6_BucketsCountAndSum ==
    /\ DOMAIN hist_seen = DOMAIN hist_children
    /\ \A k \in DOMAIN hist_children :
          LET child == hist_children[k]
              vs == Amounts(k)
          IN  /\ \A i \in 1..NumBuckets(upper_bounds) :
                    BucketSample(child, i) = NumLeq(vs, i)
              /\ \A i \in 1..Len(upper_bounds) :
                    BucketSample(child, i) <= BucketSample(child, i + 1)
              /\ CountSample(child) = Len(vs)
              /\ SumSample(child) = SumUpTo(vs, Len(vs))

\* A labelled histogram has seen, for one label vector, a value equal to a
\* bound, a value above every bound and a small value, and another label
\* vector was observed once.
C6_Witness ==
    /\ histogram = "API_REQUEST_DURATION_SECONDS"
    /\ <<"a", "a">> \in DOMAIN hist_seen
    /\ <<"b", "a">> \in DOMAIN hist_seen
    /\ Literals(<<"a", "a">>) = <<D(5, <<100>>), D(200, <<1>>)>>
    /\ Literals(<<"b", "a">>) = <<D(3, <<100>>)>>
    /\ BucketSample(hist_children[<<"a", "a">>], Len(upper_bounds)) = 1
    /\ CountSample(hist_children[<<"a", "a">>]) = 2

\* the example of C7: a histogram whose first three buckets are 0.05, 0.1
\* and 0.25 has observed 0.03, 0.2 and 0.3, in this order
ExampleObserved ==
    /\ Len(upper_bounds) >= 3
    /\ SubSeq(Declared(histogram).buckets, 1, 3)
          = <<D(5, <<100>>), D(1, <<10>>), D(25, <<100>>)>>
    /\ << >> \in DOMAIN hist_seen
    /\ Literals(<< >>) = <<D(3, <<100>>), D(2, <<10>>), D(3, <<10>>)>>

ExampleSamples ==
    <<BucketSample(hist_children[<< >>], 1),
      BucketSample(hist_children[<< >>], 2),
      BucketSample(hist_children[<< >>], 3),
      CountSample(hist_children[<< >>])>>

\* C7 as stated: after 0.03, 0.2 and 0.3 the buckets 0.05, 0.1 and 0.25
\* report 1, 1 and 1, the count is 3 and the sum is 0.53.
C7_ExampleAsStated ==
    ExampleObserved =>
        /\ ExampleSamples = <<1, 1, 1, 3>>
        /\ SumSample(hist_children[<< >>]) = Dec(53, <<100>>)

\* C7, amended: after 0.03, 0.2 and 0.3 the buckets 0.05, 0.1 and 0.25
\* report 1, 1 and 2 (0.2 <= 0.25), the count is 3 and the sum is 0.53.
C7_ExampleCounts ==
    ExampleObserved =>
        /\ ExampleSamples = <<1, 1, 2, 3>>
        /\ SumSample(hist_children[<< >>]) = Dec(53, <<100>>)

C7_Witness ==
    /\ ExampleObserved
    /\ hist_children[<< >>].buckets[3] = 1
    /\ hist_children[<< >>].buckets[4] = 1

---------------------------------------------------------------------------
(* Concurrent increments (SpecConc).                                       *)

AllReturned == \A t \in Threads : pc[t] = "done"

\* the threads whose call goes to the child id, and the child's value
CallersOf(id) == {t \in Threads : pc[t] # "idle" /\ ChildOf(t) = id}
ValueAt(id) == ChildrenOf(id[1])[id[2]]

\* the amounts of the threads ts[1..n], added in floats in this order
\* from 0.0
RECURSIVE AppliedSum(_, _)
AppliedSum(ts, n) ==
    IF n = 0 THEN FZero
    ELSE FAdd(AppliedSum(ts, n - 1), frame[ts[n]].amount)

\* the sum of the amounts of the threads 1..n that are in T, as the real
\* number it is (the amounts are not negative)
RECURSIVE RealSum(_, _)
RealSum(T, n) ==
    IF n = 0 THEN << >>
    ELSE IF n \in T THEN BAdd(RealSum(T, n - 1), frame[n].amount.mag)
    ELSE RealSum(T, n - 1)

\* the float nearest to that sum
NearestSum(T) == Float(FALSE, Round53(RealSum(T, NThreads), FALSE))

\* C4 as stated: when all the calls have returned, every accumulator holds
\* exactly the sum of the amounts of its callers, whatever the
\* interleaving was.
C4_EndsAtTheSum ==
    AllReturned =>
        \A id \in ChildIds :
            CallersOf(id) # {} => ValueAt(id) = NearestSum(CallersOf(id))

\* C4, amended: no update is lost. When all the calls have returned, every
\* caller of an accumulator has stored into it exactly once, the
\* accumulator holds the amounts of all its callers added in floats in the
\* order the stores happened, and n increments by 1 leave exactly n.
C4_NoUpdateLost ==
    AllReturned =>
        \A id \in ChildIds :
            LET ts == applied[id]
            IN  /\ Len(ts) = Cardinality(CallersOf(id))
                /\ {ts[i] : i \in 1..Len(ts)} = CallersOf(id)
                /\ CallersOf(id) # {} =>
                      /\ id[2] \in DOMAIN ChildrenOf(id[1])
                      /\ ValueAt(id) = AppliedSum(ts, Len(ts))
                      /\ id[1] = "ORDER_CREATED_TOTAL" =>
                            ValueAt(id) = FFromInt(Cardinality(CallersOf(id)))

\* Three calls of record_llm_cost for the same provider and model have
\* returned, the last thread having stored first, and a thread had to wait
\* for the value's lock: what it read is what the thread before it stored.
C4_Witness ==
    /\ AllReturned
    /\ applied[<<"LLM_COST_DOLLARS_TOTAL", <<"claude", "claude-sonnet-4-20250514">>>>]
          = <<3, 1, 2>>
    /\ frame[1].read = frame[3].amount
    /\ frame[2].read = FAdd(frame[3].amount, frame[1].amount)
    /\ frame[1].call.args[3] = 2000
    /\ frame[2].call.args[3] = 2000
    /\ frame[3].call.args[3] = 1000

=============================================================================
